---- MODULE Spec2Model ----
(***************************************************************************)
(* Model of the per-connection protocol state machine of gateway-proxy     *)
(* (src/src/server.rs): handle_client (the read loop), the sink task it    *)
(* spawns (the outbound pump) and forward_shard (the event forwarder).     *)
(*                                                                         *)
(* Text frames are sequences of tokens (strings); a decimal digit is one   *)
(* token, so String::replace_range and usize::to_string are modelled on    *)
(* the text itself.  Rust ranges are 0-based and half-open: the range      *)
(* start..end covers the tokens start+1 .. end of the TLA+ sequence.       *)
(***************************************************************************)
EXTENDS Integers, Sequences, FiniteSets

\* ---------------------------------------------------------------- bounds
MaxConns == 2        \* client connections
ShardCount == 2      \* state.shard_count, the configured number of shards
MaxFrames == 2       \* client frames read, summed over the connections
MaxRelayFrames == 3  \* client frames read in a command session
MaxEvents == 2       \* live events published, summed over the shards
MaxGuilds == 1       \* entities in a shard's world-state snapshot
BroadcastCap == 1    \* capacity of a shard's broadcast channel

Conns == 1..MaxConns
Shards == 0..(ShardCount - 1)

\* ------------------------------------------------------- fixed frames
HELLO == <<"{\"t\":null,\"s\":null,\"op\":10,\"d\":{\"heartbeat_interval\":41250}}">>
HEARTBEAT_ACK == <<"{\"t\":null,\"s\":null,\"op\":11,\"d\":null}">>
INVALID_SESSION == <<"{\"t\":null,\"s\":null,\"op\":9,\"d\":false}">>

\* Message::Text(t) and Message::Binary(b) of tungstenite
Text(t) == [bin |-> FALSE, data |-> t]
Binary(b) == [bin |-> TRUE, data |-> b]

\* ------------------------------------------------------- text helpers
DigitChar == <<"0", "1", "2", "3", "4", "5", "6", "7", "8", "9">>
IsDigit(ch) == \E i \in 1..10 : DigitChar[i] = ch
DigitVal(ch) == (CHOOSE i \in 1..10 : DigitChar[i] = ch) - 1

\* usize::to_string: the decimal digits of n, most significant first
RECURSIVE to_string(_)
to_string(n) == IF n < 10 THEN <<DigitChar[n + 1]>>
               ELSE to_string(n \div 10) \o <<DigitChar[(n % 10) + 1]>>

\* String::replace_range(range, with)
replace_range(payload, range, with) ==
    SubSeq(payload, 1, range.start) \o with \o SubSeq(payload, range.end + 1, Len(payload))

\* What a client parses as the "s" field of a sequenced frame: the digits
\* that follow the first token; -1 when there are none ("s":null).
RECURSIVE ParseDigits(_, _, _)
ParseDigits(t, i, acc) ==
    IF i <= Len(t) /\ IsDigit(t[i])
    THEN ParseDigits(t, i + 1, acc * 10 + DigitVal(t[i]))
    ELSE acc
SeqOf(t) == IF Len(t) >= 2 /\ IsDigit(t[2]) THEN ParseDigits(t, 2, 0) ELSE -1

\* ------------------------------------------------------- client frames
\* A client frame as the handler sees it: op is what
\* GatewayEventDeserializer::from_json extracts (-1: extraction fails),
\* parses says whether simd_json::from_str::<Identify> succeeds, shard and
\* compress are d.shard and d.compress ("absent" | "true" | "false"), the
\* latter as server.rs reads it (an Option<bool>).
Frame(op, parses, shard, compress, body) ==
    [op |-> op, parses |-> parses, shard |-> shard, compress |-> compress, body |-> body]
Heartbeat == Frame(1, FALSE, <<0, 0>>, "absent", "hb")
Resume == Frame(6, FALSE, <<0, 0>>, "absent", "resume")
Command == Frame(3, FALSE, <<0, 0>>, "absent", "presence")
VoiceCommand == Frame(4, FALSE, <<0, 0>>, "absent", "voice")
Garbage == Frame(-1, FALSE, <<0, 0>>, "absent", "noise")
BadIdentify == Frame(2, FALSE, <<0, 0>>, "absent", "identify")
IdentifyFrame(i, n, z) == Frame(2, TRUE, <<i, n>>, z, "identify")
NoFrame == Frame(0, FALSE, <<0, 0>>, "absent", "")
ClientFrames ==
    {Heartbeat, Resume, Command, Garbage, BadIdentify,
     IdentifyFrame(0, ShardCount, "true"),
     IdentifyFrame(0, ShardCount, "absent"),
     IdentifyFrame(ShardCount - 1, ShardCount, "false"),
     IdentifyFrame(ShardCount, ShardCount, "true"),
     IdentifyFrame(0, ShardCount + 1, "true")}
\* the frames of clients that open a session on shard 0 and use it
SessionFrames ==
    {Command, IdentifyFrame(0, ShardCount, "true"), IdentifyFrame(0, ShardCount, "absent")}

\* ------------------------------------------------------- event records
\* (String, Option<(u64, Range<usize>)>) as broadcast by a shard
NoSpan == [some |-> FALSE, start |-> 0, end |-> 0]
Span(a, b) == [some |-> TRUE, start |-> a, end |-> b]
EventRecord(p, s) == [payload |-> p, sequence |-> s]
UpstreamEvents ==
    {EventRecord(<<"EVT", "4", "2", ";", "a">>, Span(1, 3)),
     EventRecord(<<"EVT", "7", ";", "b">>, Span(1, 2)),
     EventRecord(<<"ACK", "null", ";", "c">>, NoSpan)}

NoShard == -1

VARIABLES
    hs,             \* handle_client: "init" | "open" | "closed"
    nread,          \* number of frames the read loop has taken
    last,           \* the frame the read loop took last
    accepted,       \* number of identifies the read loop has accepted
    use_zlib,       \* the AtomicBool shared by the read loop and the pump
    shard_id_ch,    \* shard_id_tx / shard_id_rx
    shard_send_ch,  \* shard_send_tx / shard_send_rx
    queue,          \* stream_writer / stream_receiver
    enq,            \* every message accepted by queue, in order (history)
    socket,         \* messages written to the websocket sink, in order
    zctx,           \* messages the connection's Compressor has processed
    pump,           \* sink_task: "idle" | "run" | "failed" | "cancelled"
    fpc,            \* forward_shard: position of the task
    fshard,         \* shard_id of forward_shard
    seq,            \* seq of forward_shard
    gidx,           \* entities already replayed by the bootstrap
    evpos,          \* event_receiver: next index into the broadcast log
    ready,          \* shard_status.ready is set
    guilds,         \* shard_status.guilds: availability of each entity
    events,         \* everything sent on shard_status.events
    upstream        \* commands submitted through shard_status.shard

vars == <<hs, nread, last, accepted, use_zlib, shard_id_ch, shard_send_ch, queue, enq, socket,
          zctx, pump, fpc, fshard, seq, gidx, evpos, ready, guilds, events,
          upstream>>

connVars == <<hs, nread, last, accepted, use_zlib, shard_id_ch, shard_send_ch>>
outVars == <<queue, enq, socket, zctx, pump>>
fwdVars == <<fpc, fshard, seq, gidx, evpos>>
shardVars == <<ready, guilds, events, upstream>>

RECURSIVE Sum(_, _)
Sum(f, S) == IF S = {} THEN 0
             ELSE LET x == CHOOSE y \in S : TRUE
                  IN f[x] + Sum(f, S \ {x})

GuildLists == UNION {[1..n -> BOOLEAN] : n \in 0..MaxGuilds}

Init ==
    /\ hs = [c \in Conns |-> "init"]
    /\ nread = [c \in Conns |-> 0]
    /\ last = [c \in Conns |-> NoFrame]
    /\ accepted = [c \in Conns |-> 0]
    /\ use_zlib = [c \in Conns |-> FALSE]
    /\ shard_id_ch = [c \in Conns |-> <<>>]
    /\ shard_send_ch = [c \in Conns |-> <<>>]
    /\ queue = [c \in Conns |-> <<>>]
    /\ enq = [c \in Conns |-> <<>>]
    /\ socket = [c \in Conns |-> <<>>]
    /\ zctx = [c \in Conns |-> 0]
    /\ pump = [c \in Conns |-> "idle"]
    /\ fpc = [c \in Conns |-> "idle"]
    /\ fshard = [c \in Conns |-> NoShard]
    /\ seq = [c \in Conns |-> 0]
    /\ gidx = [c \in Conns |-> 0]
    /\ evpos = [c \in Conns |-> 0]
    /\ ready = [s \in Shards |-> FALSE]
    /\ \E g \in GuildLists : guilds = [s \in Shards |-> g]
    /\ events = [s \in Shards |-> <<>>]
    /\ upstream = [s \in Shards |-> <<>>]

\* ------------------------------------------------------- outbound queue
\* UnboundedSender::send: the message is queued while the receiver lives;
\* once the sink task is gone the send fails and the result is discarded.
SendTo(q, alive, msg) == IF alive THEN Append(q, msg) ELSE q

Enqueue(c, msg) ==
    /\ queue' = [queue EXCEPT ![c] = SendTo(@, pump[c] = "run", msg)]
    /\ enq' = [enq EXCEPT ![c] = SendTo(@, pump[c] = "run", msg)]

\* ------------------------------------------------------- handle_client
\* Entry of handle_client: the sink task and forward_shard are spawned and
\* HELLO is queued before the first frame is read.
Accept(c) ==
    /\ hs[c] = "init"
    /\ hs' = [hs EXCEPT ![c] = "open"]
    /\ pump' = [pump EXCEPT ![c] = "run"]
    /\ fpc' = [fpc EXCEPT ![c] = "recv_id"]
    /\ queue' = [queue EXCEPT ![c] = Append(@, Text(HELLO))]
    /\ enq' = [enq EXCEPT ![c] = Append(@, Text(HELLO))]
    /\ UNCHANGED <<nread, last, accepted, use_zlib, shard_id_ch, shard_send_ch, socket, zctx,
                   fshard, seq, gidx, evpos>>
    /\ UNCHANGED shardVars

Teardown_noabort(c) ==
    /\ hs' = [hs EXCEPT ![c] = "closed"]
    /\ UNCHANGED <<pump, fpc>>
\* sink_task.abort(); shard_forward_task.abort(): both tasks are dropped
\* together with the receivers they own.
Teardown(c) ==
    /\ hs' = [hs EXCEPT ![c] = "closed"]
    /\ pump' = [pump EXCEPT ![c] = IF @ = "run" THEN "cancelled" ELSE @]
    /\ fpc' = [fpc EXCEPT ![c] = "cancelled"]

CanRead(c) == hs[c] = "open" /\ Sum(nread, Conns) < MaxFrames

\* stream.next() yields None or Some(Err(_)): the read loop ends.
StreamEnd(c) ==
    /\ hs[c] = "open"
    /\ Teardown(c)
    /\ UNCHANGED <<nread, last, accepted, use_zlib, shard_id_ch, shard_send_ch,
                   queue, enq, socket, zctx, fshard, seq, gidx, evpos>>
    /\ UNCHANGED shardVars

\* from_json returns None: continue
OnUnparsable(c, f) ==
    /\ f.op = -1
    /\ UNCHANGED <<hs, accepted, use_zlib, shard_id_ch, shard_send_ch, queue, enq, pump, fpc>>

HeartbeatReply_hello == Text(HELLO)
\* the reply to op 1
HeartbeatReply == Text(HEARTBEAT_ACK)

ResumeReply_ack == Text(HEARTBEAT_ACK)
\* the reply to op 6
ResumeReply == Text(INVALID_SESSION)

\* op 1
OnHeartbeat(c, f) ==
    /\ f.op = 1
    /\ Enqueue(c, HeartbeatReply)
    /\ UNCHANGED <<hs, accepted, use_zlib, shard_id_ch, shard_send_ch, pump, fpc>>

ZlibAfterIdentify_default(old, compress) == (compress = "true")
\* The value of use_zlib after an accepted identify
ZlibAfterIdentify(old, compress) ==
    IF compress = "absent" THEN old ELSE (compress = "true")

IdentifyOk_index(f) == f.shard[1] < f.shard[2]
\* The identify is accepted: neither break is taken
IdentifyOk(f) == f.shard[2] = ShardCount /\ f.shard[1] < f.shard[2]

Skipped_never(f) == FALSE
\* simd_json::from_str yields Err: the frame is skipped (continue)
Skipped(f) == ~f.parses

\* op 2
OnIdentify(c, f) ==
    /\ f.op = 2
    /\ IF Skipped(f)
       THEN UNCHANGED <<hs, accepted, use_zlib, shard_id_ch, pump, fpc>>
       ELSE IF ~IdentifyOk(f)
       THEN /\ Teardown(c)
            /\ UNCHANGED <<accepted, use_zlib, shard_id_ch>>
       ELSE /\ use_zlib' = [use_zlib EXCEPT ![c] = ZlibAfterIdentify(@, f.compress)]
            /\ shard_id_ch' = [shard_id_ch EXCEPT ![c] = Append(@, f.shard[1])]
            /\ accepted' = [accepted EXCEPT ![c] = @ + 1]
            /\ UNCHANGED <<hs, pump, fpc>>
    /\ UNCHANGED <<shard_send_ch, queue, enq>>

\* op 6
OnResume(c, f) ==
    /\ f.op = 6
    /\ Enqueue(c, ResumeReply)
    /\ UNCHANGED <<hs, accepted, use_zlib, shard_id_ch, shard_send_ch, pump, fpc>>

\* any other op
OnOther(c, f) ==
    /\ f.op \notin {-1, 1, 2, 6}
    /\ shard_send_ch' = [shard_send_ch EXCEPT ![c] = Append(@, f)]
    /\ UNCHANGED <<hs, accepted, use_zlib, shard_id_ch, queue, enq, pump, fpc>>

\* The body of the read loop on a frame f that the client chose in A
Dispatch(c, A) ==
    \E f \in A :
        /\ nread' = [nread EXCEPT ![c] = @ + 1]
        /\ last' = [last EXCEPT ![c] = f]
        /\ \/ OnUnparsable(c, f)
           \/ OnHeartbeat(c, f)
           \/ OnIdentify(c, f)
           \/ OnResume(c, f)
           \/ OnOther(c, f)
        /\ UNCHANGED <<socket, zctx, fshard, seq, gidx, evpos>>
        /\ UNCHANGED shardVars

\* One iteration of the read loop on a frame f that the client chose in A
ReadFrame(c, A) == CanRead(c) /\ Dispatch(c, A)

\* ------------------------------------------------------- sink task
\* Compressor::compress on the connection's persistent context: the output
\* depends on how many messages the context has already seen.
Compress(ctx, data) == <<"zlib">> \o to_string(ctx) \o <<"|">> \o data
\* what the client's inflater recovers from a binary frame
Inflate(data) ==
    LET k == CHOOSE i \in 1..Len(data) :
                 data[i] = "|" /\ \A j \in 1..(i - 1) : data[j] # "|"
    IN SubSeq(data, k + 1, Len(data))

Wire_plain(msg, zlib, ctx) == msg
Wire_dispatch(msg, zlib, ctx) ==
    IF zlib /\ msg.data \notin {HELLO, HEARTBEAT_ACK, INVALID_SESSION}
    THEN Binary(Compress(ctx, msg.data)) ELSE msg
\* The message the pump writes for msg
Wire(msg, zlib, ctx) == IF zlib THEN Binary(Compress(ctx, msg.data)) ELSE msg

PumpNext_last(q) == q[Len(q)]
\* The message the pump takes from stream_receiver
PumpNext(q) == Head(q)

\* One iteration of the sink task: recv, compress if use_zlib, sink.send
PumpWrite(c) ==
    /\ pump[c] = "run"
    /\ queue[c] # <<>>
    /\ socket' = [socket EXCEPT ![c] = Append(@, Wire(PumpNext(queue[c]), use_zlib[c], zctx[c]))]
    /\ queue' = [queue EXCEPT ![c] = Tail(@)]
    /\ zctx' = [zctx EXCEPT ![c] = IF use_zlib[c] THEN @ + 1 ELSE @]
    /\ UNCHANGED <<enq, pump>>
    /\ UNCHANGED connVars
    /\ UNCHANGED fwdVars
    /\ UNCHANGED shardVars

\* compress(..).unwrap() panics or sink.send(..).await? returns the error:
\* the sink task ends and stream_receiver is dropped.  Nothing else is told.
PumpFail(c) ==
    /\ pump[c] = "run"
    /\ queue[c] # <<>>
    /\ pump' = [pump EXCEPT ![c] = "failed"]
    /\ queue' = [queue EXCEPT ![c] = <<>>]
    /\ UNCHANGED <<enq, socket, zctx>>
    /\ UNCHANGED connVars
    /\ UNCHANGED fwdVars
    /\ UNCHANGED shardVars

\* ------------------------------------------------------- shard state
\* get_ready_payload(ready, &mut seq): the cached session-ready payload
\* with the current sequence number (0) written into it.
get_ready_payload(s, n) == [text |-> <<"READY">> \o to_string(n) \o <<";", to_string(s)[1]>>, seq |-> n]

\* One item of get_guild_payloads(&mut seq): the next sequence number and
\* an "available" / "unavailable" frame for the entity.
get_guild_payload(available, i, n) ==
    [text |-> <<IF available THEN "GUILD_CREATE" ELSE "GUILD_DELETE">>
              \o to_string(n + 1) \o <<";", to_string(i)[1]>>,
     seq |-> n + 1]

\* The upstream shard completes its handshake: ready is set (once) and
\* the tasks waiting on ready_set are notified.
ShardReady(s) ==
    /\ ~ready[s]
    /\ ready' = [ready EXCEPT ![s] = TRUE]
    /\ fpc' = [c \in Conns |->
                 IF fpc[c] = "notified" /\ fshard[c] = s THEN "send_ready" ELSE fpc[c]]
    /\ UNCHANGED <<guilds, events, upstream, fshard, seq, gidx, evpos>>
    /\ UNCHANGED connVars
    /\ UNCHANGED outVars

\* A receiver of the shard's broadcast channel exists
Subscribed(s) ==
    \E c \in Conns : fshard[c] = s /\ fpc[c] \notin {"idle", "recv_id", "cancelled"}

\* The shard broadcasts a live event record.  (A broadcast without any
\* receiver stores nothing.)
Publish(s) ==
    \E e \in UpstreamEvents :
        /\ Sum([t \in Shards |-> Len(events[t])], Shards) < MaxEvents
        /\ Subscribed(s)
        /\ events' = [events EXCEPT ![s] = Append(@, e)]
        /\ UNCHANGED <<ready, guilds, upstream>>
        /\ UNCHANGED connVars
        /\ UNCHANGED outVars
        /\ UNCHANGED fwdVars

\* ------------------------------------------------------- forward_shard
InitialSeq_one == 0 + 1
\* let mut seq: usize = 0
InitialSeq == 0

RecvId_last(ch) == ch[Len(ch)]
\* The value shard_id_rx.recv() yields
RecvId(ch) == Head(ch)

MustWait_never(r) == FALSE
\* shard_status.ready.get().is_none()
MustWait(r) == ~r

\* shard_id_rx.recv() returns, seq = 0, events.subscribe(), and the test
\* of shard_status.ready.
FwdStart(c) ==
    /\ fpc[c] = "recv_id"
    /\ shard_id_ch[c] # <<>>
    /\ LET s == RecvId(shard_id_ch[c]) IN
        /\ fshard' = [fshard EXCEPT ![c] = s]
        /\ evpos' = [evpos EXCEPT ![c] = Len(events[s])]
        /\ fpc' = [fpc EXCEPT ![c] = IF MustWait(ready[s]) THEN "to_notified" ELSE "send_ready"]
    /\ shard_id_ch' = [shard_id_ch EXCEPT ![c] = Tail(@)]
    /\ seq' = [seq EXCEPT ![c] = InitialSeq]
    /\ UNCHANGED <<gidx, hs, nread, last, accepted, use_zlib, shard_send_ch>>
    /\ UNCHANGED outVars
    /\ UNCHANGED shardVars

\* ready_set.notified() is created: from now on a notification wakes the task
FwdNotified(c) ==
    /\ fpc[c] = "to_notified"
    /\ fpc' = [fpc EXCEPT ![c] = "notified"]
    /\ UNCHANGED <<fshard, seq, gidx, evpos>>
    /\ UNCHANGED connVars
    /\ UNCHANGED outVars
    /\ UNCHANGED shardVars

\* The session-ready frame is serialized and queued
FwdSendReady(c) ==
    /\ fpc[c] = "send_ready"
    /\ LET p == get_ready_payload(fshard[c], seq[c]) IN
        /\ Enqueue(c, Text(p.text))
        /\ seq' = [seq EXCEPT ![c] = p.seq]
    /\ gidx' = [gidx EXCEPT ![c] = 0]
    /\ fpc' = [fpc EXCEPT ![c] = IF guilds[fshard[c]] = <<>> THEN "relay" ELSE "send_guilds"]
    /\ UNCHANGED <<fshard, evpos, socket, zctx, pump>>
    /\ UNCHANGED connVars
    /\ UNCHANGED shardVars

\* One iteration of the loop over get_guild_payloads
FwdSendGuild(c) ==
    /\ fpc[c] = "send_guilds"
    /\ LET g == guilds[fshard[c]]
           p == get_guild_payload(g[gidx[c] + 1], gidx[c] + 1, seq[c]) IN
        /\ Enqueue(c, Text(p.text))
        /\ seq' = [seq EXCEPT ![c] = p.seq]
        /\ gidx' = [gidx EXCEPT ![c] = @ + 1]
        /\ fpc' = [fpc EXCEPT ![c] = IF gidx[c] + 1 = Len(g) THEN "relay" ELSE "send_guilds"]
    /\ UNCHANGED <<fshard, evpos, socket, zctx, pump>>
    /\ UNCHANGED connVars
    /\ UNCHANGED shardVars

\* The oldest event the broadcast channel still holds (0-based index)
Oldest(s) == IF Len(events[s]) > BroadcastCap THEN Len(events[s]) - BroadcastCap ELSE 0

NextSeq_always(n, m) == n + 1
\* seq after an event with the sequence marker m
NextSeq(n, m) == IF m.some THEN n + 1 ELSE n

Rewrite_keep(e, n) == e.payload
\* The payload forward_shard queues for its copy of the event e
Rewrite(e, n) ==
    IF e.sequence.some
    THEN replace_range(e.payload, e.sequence, to_string(NextSeq(n, e.sequence)))
    ELSE e.payload

SharedAfter_inplace(log, i, p) == [log EXCEPT ![i] = [@ EXCEPT !.payload = p]]
\* The broadcast log after a subscriber has rewritten its copy of item i
SharedAfter(log, i, p) == log

\* select!: event_receiver.recv() yields Ok(event)
FwdEvent(c) ==
    /\ fpc[c] = "relay"
    /\ LET s == fshard[c] IN
        /\ evpos[c] >= Oldest(s)
        /\ evpos[c] < Len(events[s])
        /\ LET e == events[s][evpos[c] + 1] IN
            /\ Enqueue(c, Text(Rewrite(e, seq[c])))
            /\ seq' = [seq EXCEPT ![c] = NextSeq(@, e.sequence)]
            /\ events' = [events EXCEPT ![s] = SharedAfter(@, evpos[c] + 1, Rewrite(e, seq[c]))]
    /\ evpos' = [evpos EXCEPT ![c] = @ + 1]
    /\ UNCHANGED <<fpc, fshard, gidx, socket, zctx, pump, ready, guilds, upstream>>
    /\ UNCHANGED connVars

\* select!: event_receiver.recv() yields Err(Lagged): the pattern does not
\* match, the branch is disabled and the select! waits for a command only.
FwdLagged(c) ==
    /\ fpc[c] = "relay"
    /\ evpos[c] < Oldest(fshard[c])
    /\ evpos' = [evpos EXCEPT ![c] = Oldest(fshard[c])]
    /\ fpc' = [fpc EXCEPT ![c] = "relay_cmd"]
    /\ UNCHANGED <<fshard, seq, gidx>>
    /\ UNCHANGED connVars
    /\ UNCHANGED outVars
    /\ UNCHANGED shardVars

NextCommand_last(ch) == ch[Len(ch)]
\* The command shard_send_rx.recv() yields
NextCommand(ch) == Head(ch)

\* select!: shard_send_rx.recv() yields Some(command); shard.send(command)
FwdCommand(c) ==
    /\ fpc[c] \in {"relay", "relay_cmd"}
    /\ shard_send_ch[c] # <<>>
    /\ upstream' = [upstream EXCEPT ![fshard[c]] = Append(@, NextCommand(shard_send_ch[c]))]
    /\ shard_send_ch' = [shard_send_ch EXCEPT ![c] = Tail(@)]
    /\ fpc' = [fpc EXCEPT ![c] = "relay"]
    /\ UNCHANGED <<fshard, seq, gidx, evpos, hs, nread, last, accepted, use_zlib, shard_id_ch>>
    /\ UNCHANGED <<ready, guilds, events>>
    /\ UNCHANGED outVars

\* ------------------------------------------------------- specifications
Handler(c) == Accept(c) \/ ReadFrame(c, ClientFrames) \/ StreamEnd(c)
Forwarder(c) ==
    \/ FwdStart(c) \/ FwdNotified(c) \/ FwdSendReady(c) \/ FwdSendGuild(c)
    \/ FwdEvent(c) \/ FwdLagged(c) \/ FwdCommand(c)
Shard(s) == ShardReady(s) \/ Publish(s)

\* One client connection sending any frames; the transport works (every
\* sink.send succeeds).
Next ==
    \/ Handler(1) \/ PumpWrite(1) \/ Forwarder(1)
    \/ \E s \in Shards : Shard(s)

Spec == Init /\ [][Next]_vars

\* One client connection; the transport may fail.
NextFault == Next \/ PumpFail(1)

SpecFault == Init /\ [][NextFault]_vars

\* Several client connections, each opening a session on shard 0.
Session(c) == Accept(c) \/ ReadFrame(c, SessionFrames)

NextShared ==
    \/ \E c \in Conns : Session(c) \/ PumpWrite(c) \/ Forwarder(c)
    \/ \E s \in Shards : Shard(s)

SpecShared == Init /\ [][NextShared]_vars

\* One client connection that sends commands and identifies on shard 0.
\* tokio polls every spawned task that can make progress, and select! picks
\* among its ready branches at random, so a command that stays receivable
\* is received.
RelayFrames ==
    {Command, VoiceCommand,
     IdentifyFrame(0, ShardCount, "absent"),
     IdentifyFrame(ShardCount - 1, ShardCount, "false")}
CanReadRelay(c) == hs[c] = "open" /\ Sum(nread, Conns) < MaxRelayFrames
RelayRead(c) == CanReadRelay(c) /\ Dispatch(c, RelayFrames)

NextRelay ==
    \/ Accept(1) \/ RelayRead(1) \/ StreamEnd(1)
    \/ PumpWrite(1) \/ Forwarder(1)
    \/ \E s \in Shards : Shard(s)

SpecRelay == Init /\ [][NextRelay]_vars /\ WF_vars(FwdCommand(1))

\* ------------------------------------------------------- reading frames
Tag(m) == m.data[1]
IsControl(m) == m.data \in {HELLO, HEARTBEAT_ACK, INVALID_SESSION}
IsHello(m) == m.data = HELLO
IsBootReady(m) == Tag(m) = "READY"
IsBootGuild(m) == Tag(m) \in {"GUILD_CREATE", "GUILD_DELETE"}
IsBoot(m) == IsBootReady(m) \/ IsBootGuild(m)
FromForwarder(m) == ~IsControl(m)
IsLive(m) == FromForwarder(m) /\ ~IsBoot(m)
IsSequencedLive(m) == IsLive(m) /\ SeqOf(m.data) >= 0
InRelay(c) == fpc[c] \in {"relay", "relay_cmd"}
GuildTag(available) == IF available THEN "GUILD_CREATE" ELSE "GUILD_DELETE"
\* the snapshot of the shard the connection is bound to
Snapshot(c) == IF fshard[c] = NoShard THEN <<>> ELSE guilds[fshard[c]]

\* ------------------------------------------------------- C1
\* C1 as stated: on a connection whose bootstrap has finished, the outbound
\* queue received exactly one hello, as its first frame, exactly one
\* session-ready frame with sequence 0, and DIRECTLY after it in the queue
\* one availability frame per entity of the snapshot with sequences 1, 2, ...
C1_AsStated ==
    \A c \in Conns : InRelay(c) =>
        /\ IsHello(enq[c][1])
        /\ Len(SelectSeq(enq[c], IsHello)) = 1
        /\ Len(SelectSeq(enq[c], IsBootReady)) = 1
        /\ Len(SelectSeq(enq[c], IsBootGuild)) = Len(Snapshot(c))
        /\ \E k \in 1..Len(enq[c]) :
              /\ IsBootReady(enq[c][k])
              /\ SeqOf(enq[c][k].data) = 0
              /\ k + Len(Snapshot(c)) <= Len(enq[c])
              /\ \A i \in 1..Len(Snapshot(c)) :
                    /\ Tag(enq[c][k + i]) = GuildTag(Snapshot(c)[i])
                    /\ SeqOf(enq[c][k + i].data) = i

\* C1 amended: the hello is the first frame queued and the only hello; the
\* frames the forwarder queues start with exactly one session-ready frame
\* with sequence 0 followed, among the forwarder's frames, by exactly one
\* availability frame per entity with sequences 1, 2, ... in snapshot order
\* (replies of the read loop may be queued in between); nothing is queued by
\* the forwarder before an identify was accepted, and the bootstrap is
\* complete when the relay loop is entered.
C1_Bootstrap ==
    \A c \in Conns : hs[c] # "init" =>
        LET F == SelectSeq(enq[c], FromForwarder)
            B == SelectSeq(enq[c], IsBoot)
            n == Len(Snapshot(c))
        IN  /\ IsHello(enq[c][1])
            /\ Len(SelectSeq(enq[c], IsHello)) = 1
            /\ accepted[c] = 0 => F = <<>>
            /\ Len(B) <= 1 + n
            /\ Len(B) <= Len(F)
            /\ \A i \in 1..Len(B) :
                  /\ F[i] = B[i]
                  /\ SeqOf(B[i].data) = i - 1
                  /\ i = 1 => IsBootReady(B[i])
                  /\ i > 1 => Tag(B[i]) = GuildTag(Snapshot(c)[i - 1])
            /\ InRelay(c) => Len(B) = 1 + n

\* a heartbeat ACK was queued between the session-ready frame and the
\* availability frame of a finished bootstrap
C1_Witness ==
    /\ InRelay(1)
    /\ Len(Snapshot(1)) = 1
    /\ \E k \in 1..Len(enq[1]) :
          /\ k + 2 <= Len(enq[1])
          /\ IsBootReady(enq[1][k])
          /\ enq[1][k + 1] = Text(HEARTBEAT_ACK)
          /\ IsBootGuild(enq[1][k + 2])

\* ------------------------------------------------------- C2
RejectedIdentify(f) == f.op = 2 /\ f.parses /\ ~IdentifyOk(f)
ShardCountMismatch(f) == f.op = 2 /\ f.parses /\ f.shard[2] # ShardCount
ShardOutOfRange(f) == f.op = 2 /\ f.parses /\ f.shard[1] >= f.shard[2]
NoBootstrap(c) ==
    /\ SelectSeq(enq[c], IsBootReady) = <<>>
    /\ \A i \in 1..Len(socket[c]) :
          ~IsBootReady(IF socket[c][i].bin
                       THEN Text(Inflate(socket[c][i].data)) ELSE socket[c][i])
TornDown(c) == hs[c] = "closed" /\ pump[c] # "run" /\ fpc[c] = "cancelled"

\* C2 as stated: after an identify with a wrong shard count or a shard index
\* out of range the connection is closed, both tasks are cancelled, and no
\* session-ready frame was ever queued or written on the connection.
C2_AsStated ==
    \A c \in Conns :
        (ShardCountMismatch(last[c]) \/ ShardOutOfRange(last[c])) =>
            TornDown(c) /\ NoBootstrap(c)

\* C2 amended: ... the connection is closed and both tasks are cancelled;
\* no session-ready frame was queued or written on the connection unless a
\* valid identify had been accepted on it before.
C2_Rejected ==
    \A c \in Conns :
        (ShardCountMismatch(last[c]) \/ ShardOutOfRange(last[c])) =>
            /\ TornDown(c)
            /\ accepted[c] = 0 => NoBootstrap(c)

\* a first identify with a mismatched shard count has closed the connection
C2_Witness ==
    /\ last[1] = IdentifyFrame(0, ShardCount + 1, "true")
    /\ accepted[1] = 0
    /\ hs[1] = "closed"
    /\ ready[0]

\* ------------------------------------------------------- C3
\* C3: the sequence numbers a connection finds in the live events relayed
\* to it are bootstrap_count+1, bootstrap_count+2, ... in relay order,
\* bootstrap_count being the last sequence number of the bootstrap (the
\* number of entities replayed), whatever the upstream numbers were.
C3_LiveSequence ==
    \A c \in Conns :
        LET L == SelectSeq(enq[c], IsSequencedLive)
        IN \A i \in 1..Len(L) : SeqOf(L[i].data) = Len(Snapshot(c)) + i

\* two sequenced live events were relayed after a bootstrap with one entity
C3_Witness ==
    /\ Len(Snapshot(1)) = 1
    /\ Len(SelectSeq(enq[1], IsSequencedLive)) = 2
    /\ \E i \in 1..Len(events[fshard[1]]) : SeqOf(events[fshard[1]][i].payload) = 42

\* ------------------------------------------------------- C4
\* a frame text without the digits of its sequence field
RECURSIVE Strip(_)
Strip(t) == IF t = <<>> THEN <<>>
            ELSE IF IsDigit(Head(t)) THEN Strip(Tail(t))
            ELSE <<Head(t)>> \o Strip(Tail(t))
IsSequenced(m) == FromForwarder(m) /\ SeqOf(m.data) >= 0
AppendOnly(old, new) ==
    Len(new) >= Len(old) /\ SubSeq(new, 1, Len(old)) = old

\* C4: connections sharing a shard are numbered independently.  In every
\* state each connection's sequenced frames carry 0, 1, 2, ... in its own
\* queue order and each live frame is a published event changed in its
\* sequence field only; no step changes an event of the shared broadcast
\* log; and a step that queues a frame for one connection leaves the
\* counter and the queue of every other connection as they were.
C4_Independent ==
    /\ [](\A c \in Conns :
            LET S == SelectSeq(enq[c], IsSequenced)
                L == SelectSeq(enq[c], IsLive)
            IN /\ \A i \in 1..Len(S) : SeqOf(S[i].data) = i - 1
               /\ \A i \in 1..Len(L) :
                     \E j \in 1..Len(events[fshard[c]]) :
                        /\ Strip(L[i].data) = Strip(events[fshard[c]][j].payload)
                        /\ L[i].data # events[fshard[c]][j].payload
                              => events[fshard[c]][j].sequence.some)
    /\ [][/\ \A s \in Shards : AppendOnly(events[s], events'[s])
          /\ \A c \in Conns : enq'[c] # enq[c] =>
                \A d \in Conns \ {c} : seq'[d] = seq[d] /\ enq'[d] = enq[d]]_vars

\* two connections on the same shard hold copies of the same event under
\* different sequence numbers
C4_Witness ==
    /\ InRelay(1) /\ InRelay(2)
    /\ fshard[1] = fshard[2]
    /\ \E i \in 1..Len(enq[1]) : \E j \in 1..Len(enq[2]) :
          /\ IsSequencedLive(enq[1][i])
          /\ IsSequencedLive(enq[2][j])
          /\ Strip(enq[1][i].data) = Strip(enq[2][j].data)
          /\ SeqOf(enq[1][i].data) # SeqOf(enq[2][j].data)

\* ------------------------------------------------------- C5
\* the read loop of c takes a frame with opcode op in this step
Reads(c, op) == nread'[c] = nread[c] + 1 /\ last'[c].op = op
\* everything of the connection but its outbound queue is left alone
OnlyQueued(c, msg) ==
    /\ enq'[c] = Append(enq[c], msg)
    /\ queue'[c] = Append(queue[c], msg)
    /\ hs'[c] = "open"
    /\ UNCHANGED <<use_zlib, accepted, shard_id_ch, shard_send_ch, socket, zctx,
                   pump, fpc, fshard, seq, gidx, evpos, ready, guilds, events,
                   upstream>>

\* C5: a frame with opcode 1, in whatever state the connection is, queues
\* exactly one heartbeat ACK and changes nothing else: no shard index is
\* sent, the compression flag keeps its value, nothing is put on the
\* upstream-command queue and the connection stays open.
C5_Heartbeat ==
    [][\A c \in Conns : Reads(c, 1) => OnlyQueued(c, Text(HEARTBEAT_ACK))]_vars

\* a heartbeat was answered while the forwarder waited for the shard
C5_Witness ==
    /\ last[1] = Heartbeat
    /\ accepted[1] = 1
    /\ fpc[1] = "notified"
    /\ enq[1] = <<Text(HELLO), Text(HEARTBEAT_ACK)>>

\* ------------------------------------------------------- C6
\* C6: a frame with opcode 6 queues exactly one invalid-session frame and
\* establishes no session: no shard index is sent, the forwarder does not
\* move, nothing is forwarded upstream.
C6_Resume ==
    [][\A c \in Conns : Reads(c, 6) => OnlyQueued(c, Text(INVALID_SESSION))]_vars

\* a resume on a fresh connection was refused, the forwarder still waits
C6_Witness ==
    /\ last[1] = Resume
    /\ accepted[1] = 0
    /\ fpc[1] = "recv_id"
    /\ enq[1] = <<Text(HELLO), Text(INVALID_SESSION)>>

\* ------------------------------------------------------- C7
\* what the client reads from a written message
PlainMsg(m) == IF m.bin THEN Text(Inflate(m.data)) ELSE m
WireFromForwarder(m) == FromForwarder(PlainMsg(m))
WireSequenced(m) == IsSequenced(PlainMsg(m))

\* C7: on a connection whose one accepted identify carried compress=true,
\* the socket carries the hello first; every frame of the forwarder is
\* written compressed; the forwarder's frames start with the session-ready
\* frame, and its sequenced frames are, in this order, the session-ready
\* frame with 0, the availability frames with 1, 2, ..., then the live
\* events with the following numbers.
C7_Compressed ==
    \A c \in Conns : (accepted[c] = 1 /\ use_zlib[c]) =>
        LET W == socket[c]
            FW == SelectSeq(W, WireFromForwarder)
            S == SelectSeq(W, WireSequenced)
            n == Len(Snapshot(c))
        IN  /\ W # <<>> => IsHello(PlainMsg(W[1]))
            /\ \A i \in 1..Len(FW) : FW[i].bin
            /\ FW # <<>> => IsBootReady(PlainMsg(FW[1]))
            /\ \A i \in 1..Len(S) :
                  /\ SeqOf(PlainMsg(S[i]).data) = i - 1
                  /\ i = 1 => IsBootReady(PlainMsg(S[i]))
                  /\ (1 < i /\ i <= 1 + n) =>
                        Tag(PlainMsg(S[i])) = GuildTag(Snapshot(c)[i - 1])
                  /\ i > 1 + n => IsLive(PlainMsg(S[i]))

\* hello, compressed session-ready 0, compressed GUILD_CREATE 1, compressed
\* live events 2 and 3 are on the socket
C7_Witness ==
    /\ accepted[1] = 1 /\ use_zlib[1]
    /\ Snapshot(1) = <<TRUE>>
    /\ Len(socket[1]) = 5
    /\ IsHello(PlainMsg(socket[1][1]))
    /\ \A i \in 2..5 : socket[1][i].bin /\ SeqOf(PlainMsg(socket[1][i]).data) = i - 2
    /\ Tag(PlainMsg(socket[1][3])) = "GUILD_CREATE"
    /\ IsLive(PlainMsg(socket[1][5]))

\* ------------------------------------------------------- C8
Written(c) == [i \in 1..Len(socket[c]) |-> PlainMsg(socket[c][i])]

\* C8: what has been written to the socket is, frame by frame, a prefix of
\* what was queued, and while the pump runs the rest is what the queue
\* holds; the socket changes only by the pump taking the head of the queue
\* and writing that one frame.
C8_Order ==
    /\ [](\A c \in Conns :
            /\ Len(socket[c]) <= Len(enq[c])
            /\ Written(c) = SubSeq(enq[c], 1, Len(socket[c]))
            /\ pump[c] = "run" => Written(c) \o queue[c] = enq[c])
    /\ [][\A c \in Conns : socket'[c] # socket[c] =>
            /\ pump[c] = "run" /\ queue[c] # <<>>
            /\ Len(socket'[c]) = Len(socket[c]) + 1
            /\ SubSeq(socket'[c], 1, Len(socket[c])) = socket[c]
            /\ PlainMsg(socket'[c][Len(socket'[c])]) = Head(queue[c])
            /\ queue'[c] = Tail(queue[c])
            /\ enq'[c] = enq[c]]_vars

\* replies of the read loop and frames of the forwarder were written, a
\* reply after a forwarder frame
C8_Witness ==
    /\ Len(socket[1]) >= 4
    /\ \E i \in 1..Len(socket[1]) : \E j \in (i + 1)..Len(socket[1]) :
          /\ IsBootReady(PlainMsg(socket[1][i]))
          /\ PlainMsg(socket[1][j]) = Text(HEARTBEAT_ACK)

\* ------------------------------------------------------- C9
\* C9 as stated: once the pump of a connection has stopped on a failure,
\* the read loop of that connection takes no further client frame and its
\* forwarder relays nothing further (no event is numbered, no command is
\* submitted).
C9_AsStated ==
    [][\A c \in Conns : pump[c] = "failed" =>
          /\ nread'[c] = nread[c]
          /\ seq'[c] = seq[c]
          /\ upstream' = upstream]_vars

\* ------------------------------------------------------- C10
\* the read loop of c accepts an identify after an earlier accepted one
LaterIdentify(c) ==
    /\ Reads(c, 2)
    /\ accepted[c] >= 1
    /\ accepted'[c] = accepted[c] + 1
BindingKept(c) ==
    /\ fshard'[c] = fshard[c]
    /\ fpc'[c] = fpc[c]
    /\ shard_id_ch[c] # <<>> => Head(shard_id_ch'[c]) = Head(shard_id_ch[c])
    /\ seq'[c] = seq[c]
    /\ queue'[c] = queue[c]
    /\ enq'[c] = enq[c]

\* C10 as stated: a later valid identify leaves the shard binding, the
\* compression flag, the sequence counter and the outbound queue unchanged.
C10_AsStated ==
    [][\A c \in Conns : LaterIdentify(c) =>
          BindingKept(c) /\ use_zlib'[c] = use_zlib[c]]_vars

\* C10 amended: a later valid identify leaves the shard binding, the
\* sequence counter and the outbound queue unchanged; it sets the
\* compression flag to its compress value when it carries one and leaves
\* the flag unchanged when it carries none.
C10_LaterIdentify ==
    [][\A c \in Conns : LaterIdentify(c) =>
          /\ BindingKept(c)
          /\ last'[c].compress = "absent" => use_zlib'[c] = use_zlib[c]
          /\ last'[c].compress # "absent" => use_zlib'[c] = (last'[c].compress = "true")]_vars

\* a second identify without a compress value left the flag set by the first
C10_Witness ==
    /\ accepted[1] = 2
    /\ last[1] = IdentifyFrame(0, ShardCount, "absent")
    /\ use_zlib[1]
    /\ fshard[1] = 0

\* ------------------------------------------------------- C11
\* the last frame the read loop of c took is the first identify it accepted
FirstIdentifyJustAccepted(c) ==
    /\ accepted[c] = 1
    /\ last[c].op = 2 /\ last[c].parses /\ IdentifyOk(last[c])

\* C11 as stated: a frame with an opcode other than 1, 2 and 6 read before
\* the first accepted identify of the connection is never submitted to a
\* shard.  While the first accepted identify is the last frame read, every
\* command the connection has read so far was read before it, so no shard
\* has received a command.
C11_AsStated ==
    \A c \in Conns : FirstIdentifyJustAccepted(c) =>
        \A s \in Shards : upstream[s] = <<>>

\* ------------------------------------------------------- C12
\* the read loop of c takes a frame whose opcode cannot be extracted, or a
\* frame with opcode 2 whose identify payload does not parse
ReadsMalformed(c) ==
    /\ nread'[c] = nread[c] + 1
    /\ \/ last'[c].op = -1
       \/ last'[c].op = 2 /\ ~last'[c].parses

\* C12: a malformed frame is skipped.  The connection stays open, nothing is
\* put on the outbound queue or on the upstream-command queue, no shard
\* index is sent, the compression flag keeps its value, and both tasks and
\* the shards are where they were, so the frames that follow are processed
\* as if the malformed frame had not been sent.
C12_Skipped ==
    [][\A c \in Conns : ReadsMalformed(c) =>
          /\ hs[c] = "open" /\ hs'[c] = "open"
          /\ UNCHANGED <<accepted, use_zlib, shard_id_ch, shard_send_ch>>
          /\ UNCHANGED <<outVars, fwdVars, shardVars>>]_vars

\* an identify that does not parse was skipped on an identified connection
\* with compression on
C12_Witness ==
    /\ last[1] = BadIdentify
    /\ accepted[1] = 1
    /\ use_zlib[1]
    /\ hs[1] = "open"
    /\ shard_id_ch[1] = <<>>

\* ------------------------------------------------------- C13
\* C13 as stated: no readiness notification is lost.  A shard becomes ready
\* once and notifies once, so a forwarder of an open connection that waits
\* for the notification of a shard that is already ready would wait for
\* ever and never queue the bootstrap frame: no such state is reached.
C13_AsStated ==
    \A c \in Conns :
        (hs[c] = "open" /\ fpc[c] = "notified") => ~ready[fshard[c]]

\* ------------------------------------------------------- C14
\* the broadcast channel holds an event the forwarder of c has not received
Deliverable(c) == InRelay(c) /\ evpos[c] < Len(events[fshard[c]])

\* C14 as stated: after a lag the forwarder continues on its own.  Whenever
\* an open connection in its relay loop has a deliverable event and no
\* command queued, its forwarder waits on the event branch of the select,
\* so the event is relayed without any further frame of the client.
C14_AsStated ==
    \A c \in Conns :
        (hs[c] = "open" /\ Deliverable(c) /\ shard_send_ch[c] = <<>>) =>
            fpc[c] = "relay"

\* ------------------------------------------------------- C15
IsCommand(f) == f.op \notin {-1, 1, 2, 6}
\* the number of commands the shard of c has received
Submitted(c) == IF fshard[c] = NoShard THEN 0 ELSE Len(upstream[fshard[c]])
\* this step submits the oldest queued command of c, as it was read, to the
\* shard of c and to no other
SubmitsHead(c) ==
    /\ hs[c] = "open" /\ InRelay(c)
    /\ shard_send_ch[c] # <<>>
    /\ shard_send_ch'[c] = Tail(shard_send_ch[c])
    /\ upstream'[fshard[c]] = Append(upstream[fshard[c]], Head(shard_send_ch[c]))
    /\ \A s \in Shards \ {fshard[c]} : upstream'[s] = upstream[s]

\* C15: the upstream-command queue of a connection holds client frames with
\* an opcode other than 1, 2 and 6 only, and so do the shards; a read
\* appends such a frame, as read, to the queue and a frame with another
\* opcode leaves the queue alone; the queue loses a frame, and a shard
\* gains one, only by the forwarder in its relay loop moving the oldest
\* queued frame to the shard it is bound to; and under fair scheduling of
\* the command branch a queued command of an open connection in its relay
\* loop is followed by a submission or by the end of the connection.
C15_Commands ==
    /\ [](\A c \in Conns :
            /\ \A i \in 1..Len(shard_send_ch[c]) : IsCommand(shard_send_ch[c][i])
            /\ \A s \in Shards : \A i \in 1..Len(upstream[s]) :
                  IsCommand(upstream[s][i]) /\ \E d \in Conns : fshard[d] = s)
    /\ [][/\ \A c \in Conns :
             /\ (nread'[c] = nread[c] + 1 /\ IsCommand(last'[c])) =>
                   /\ shard_send_ch'[c] = Append(shard_send_ch[c], last'[c])
                   /\ upstream' = upstream
             /\ (nread'[c] = nread[c] + 1 /\ ~IsCommand(last'[c])) =>
                   /\ shard_send_ch'[c] = shard_send_ch[c]
                   /\ upstream' = upstream
             /\ (nread'[c] = nread[c] /\ shard_send_ch'[c] # shard_send_ch[c]) =>
                   SubmitsHead(c)
          /\ upstream' # upstream => \E c \in Conns : SubmitsHead(c)]_vars
    /\ \A n \in 0..MaxRelayFrames :
          (hs[1] = "open" /\ InRelay(1) /\ shard_send_ch[1] # <<>> /\ Submitted(1) = n)
             ~> (hs[1] = "closed" \/ Submitted(1) > n)

\* two commands read before the identify reached the chosen shard, and no
\* other shard, in the order they were read
C15_Witness ==
    /\ hs[1] = "open"
    /\ fshard[1] = ShardCount - 1
    /\ upstream[ShardCount - 1] = <<VoiceCommand, Command>>
    /\ \A s \in Shards \ {ShardCount - 1} : upstream[s] = <<>>

\* ------------------------------------------------------- C16
\* C16: the read loop ends only by closing the connection with both tasks
\* cancelled; a closed connection has no running pump and no forwarder, and
\* from then on its socket, its queues, its counter and the commands it has
\* queued for the shard stay as they are: nothing more is written and
\* nothing more is submitted, whatever is still queued.
C16_Cancelled ==
    /\ [](\A c \in Conns :
            hs[c] = "closed" => pump[c] # "run" /\ fpc[c] = "cancelled")
    /\ [][\A c \in Conns :
            /\ (hs[c] = "open" /\ hs'[c] # "open") =>
                  /\ hs'[c] = "closed"
                  /\ pump'[c] # "run" /\ fpc'[c] = "cancelled"
                  /\ socket'[c] = socket[c]
            /\ hs[c] = "closed" =>
                  /\ hs'[c] = "closed"
                  /\ socket'[c] = socket[c]
                  /\ shard_send_ch'[c] = shard_send_ch[c]
                  /\ (\A d \in Conns \ {c} : hs[d] # "open") => upstream' = upstream
                  /\ nread'[c] = nread[c] /\ seq'[c] = seq[c]
                  /\ enq'[c] = enq[c] /\ queue'[c] = queue[c]]_vars

\* the stream ended on a connection bound to a ready shard while a frame
\* waited for the pump and a command waited for the forwarder
C16_Witness ==
    /\ hs[1] = "closed"
    /\ fshard[1] # NoShard /\ ready[fshard[1]]
    /\ queue[1] # <<>>
    /\ shard_send_ch[1] # <<>>
    /\ last[1] = Command

\* ------------------------------------------------------- C17
\* C17: the frame a step writes to the socket is a compressed binary frame
\* exactly when the compression flag of the connection is set in the state
\* the pump takes the frame from the queue in, whatever the flag was when
\* the frame was queued, and it carries the frame at the head of the queue.
C17_AtDequeue ==
    [][\A c \in Conns : socket'[c] # socket[c] =>
          LET w == socket'[c][Len(socket'[c])]
          IN /\ w.bin = use_zlib[c]
             /\ PlainMsg(w) = Head(queue[c])
             /\ ~w.bin => w = Head(queue[c])]_vars

\* the hello, queued before any identify, was written compressed, and so
\* was a heartbeat ACK queued before the identify with compress=true
C17_Witness ==
    /\ use_zlib[1]
    /\ Len(socket[1]) >= 2
    /\ socket[1][1].bin /\ IsHello(PlainMsg(socket[1][1]))
    /\ socket[1][2].bin /\ PlainMsg(socket[1][2]) = Text(HEARTBEAT_ACK)
    /\ last[1] = IdentifyFrame(0, ShardCount, "true")

\* ------------------------------------------------------- C18
\* the forwarder of c relays its next broadcast event in this step
RelaysEvent(c) ==
    /\ InRelay(c)
    /\ evpos'[c] = evpos[c] + 1
    /\ enq'[c] # enq[c]
\* the event record the forwarder of c receives next
NextEvent(c) == events[fshard[c]][evpos[c] + 1]

\* C18: a relayed event without a span is queued with the text it was
\* broadcast with and the counter keeps its value; a relayed event with a
\* span adds exactly 1 to the counter; and no other step of a connection
\* in its relay loop changes the counter.
C18_Counter ==
    [][\A c \in Conns :
          /\ (RelaysEvent(c) /\ ~NextEvent(c).sequence.some) =>
                /\ enq'[c] = Append(enq[c], Text(NextEvent(c).payload))
                /\ seq'[c] = seq[c]
          /\ (RelaysEvent(c) /\ NextEvent(c).sequence.some) =>
                /\ Len(enq'[c]) = Len(enq[c]) + 1
                /\ seq'[c] = seq[c] + 1
          /\ (InRelay(c) /\ ~RelaysEvent(c)) => seq'[c] = seq[c]]_vars

\* an event without a span was relayed after one with a span: the counter
\* counts the one with the span only
C18_Witness ==
    /\ InRelay(1)
    /\ Len(enq[1]) >= 2
    /\ enq[1][Len(enq[1])] = Text(<<"ACK", "null", ";", "c">>)
    /\ IsSequencedLive(enq[1][Len(enq[1]) - 1])
    /\ seq[1] = Len(Snapshot(1)) + 1

\* ------------------------------------------------------- C19
\* the positions of the frames of the outbound queue of c that satisfy P
Positions(c, P(_)) == {i \in 1..Len(enq[c]) : P(enq[c][i])}

\* C19: in every state the frames of the forwarder stand in phase order in
\* what was queued for the connection.  A bootstrap frame stands behind the
\* hello, on a connection that has accepted an identify and whose shard is
\* ready; a live event stands behind the session-ready frame and behind one
\* availability frame per entity of the snapshot; and while the forwarder
\* is bound to its shard but not yet in its relay loop no live event is
\* queued, whatever the shard has broadcast since the forwarder subscribed.
\* A step queues a live event only for a forwarder in its relay loop.
C19_PhaseOrder ==
    /\ [](\A c \in Conns :
            LET B == Positions(c, IsBoot)
                G == Positions(c, IsBootGuild)
                L == Positions(c, IsLive)
            IN /\ B # {} =>
                    /\ IsHello(enq[c][1])
                    /\ \A i \in B : i > 1
                    /\ accepted[c] >= 1
                    /\ fshard[c] # NoShard /\ ready[fshard[c]]
               /\ L # {} =>
                    /\ \E r \in B : IsBootReady(enq[c][r]) /\ \A i \in G : r < i
                    /\ Cardinality(G) = Len(Snapshot(c))
                    /\ \A i \in L : \A b \in B : b < i
               /\ fpc[c] \in {"to_notified", "notified", "send_ready", "send_guilds"}
                    => L = {})
    /\ [][\A c \in Conns :
            (Len(SelectSeq(enq'[c], IsLive)) > Len(SelectSeq(enq[c], IsLive)))
               => InRelay(c)]_vars

\* the shard has broadcast an event to a forwarder that is still replaying
\* the snapshot: the event waits in the channel
C19_Witness ==
    /\ fpc[1] = "send_guilds"
    /\ evpos[1] < Len(events[fshard[1]])
    /\ Positions(1, IsBootReady) # {}
    /\ Positions(1, IsLive) = {}
    /\ Len(enq[1]) >= 3

\* ------------------------------------------------------- C20
\* C20: however many identifies a connection accepts, its forwarder takes
\* one shard index from the channel, the oldest, which is the one of the
\* first accepted identify; every later index stays in the channel.  Once
\* bound the forwarder keeps its shard, at most one session-ready frame and
\* at most one availability frame per entity are ever queued, and no step
\* lowers the sequence counter.
C20_OneBinding ==
    /\ [](\A c \in Conns :
            /\ Len(SelectSeq(enq[c], IsBootReady)) <= 1
            /\ Len(SelectSeq(enq[c], IsBootGuild)) <= Len(Snapshot(c))
            /\ fshard[c] = NoShard => Len(shard_id_ch[c]) = accepted[c]
            /\ fshard[c] # NoShard => Len(shard_id_ch[c]) = accepted[c] - 1)
    /\ [][\A c \in Conns :
            /\ seq'[c] >= seq[c]
            /\ (fshard[c] = NoShard /\ fshard'[c] # NoShard) =>
                  /\ shard_id_ch[c] # <<>>
                  /\ fshard'[c] = Head(shard_id_ch[c])
                  /\ shard_id_ch'[c] = Tail(shard_id_ch[c])
            /\ fshard[c] # NoShard =>
                  /\ fshard'[c] = fshard[c]
                  /\ AppendOnly(shard_id_ch[c], shard_id_ch'[c])
            /\ (accepted[c] = 0 /\ accepted'[c] = 1) =>
                  shard_id_ch'[c] = <<last'[c].shard[1]>>]_vars

\* two identifies for different shards were accepted before the forwarder
\* ran: it is bound to the first one's shard, has finished its bootstrap,
\* and the second index is still in the channel
C20_Witness ==
    /\ accepted[1] = 2
    /\ last[1] = IdentifyFrame(0, ShardCount, "true")
    /\ fshard[1] = ShardCount - 1
    /\ shard_id_ch[1] = <<0>>
    /\ InRelay(1)
    /\ Len(SelectSeq(enq[1], IsBootReady)) = 1

====
